---------------------------- MODULE Spec2Model ----------------------------
(***************************************************************************)
(* Reference-counted ownership handles of the repository:                  *)
(*   src/src/demo/my_weak.rs  Rc<T> / Weak<T>   (Cell counters)            *)
(*   src/src/demo/my_arc.rs   Arc<T> / Weak<T>  (AtomicUsize counters)     *)
(*   src/src/demo/my_rc.rs    MyRc<T>           (one plain counter)        *)
(* Each control block (Inner<T>) is a record of the value and the two      *)
(* counters.  Box::from_raw(ptr) followed by the drop of the temporary Box *)
(* runs the destructor of Inner<T> (and so of the value) and returns the   *)
(* memory: it is the only place where the value is destroyed.              *)
(***************************************************************************)
EXTENDS Integers, Naturals, Sequences, FiniteSets, TLC

VARIABLES
    rc_inner,     \* my_weak.rs Inner<T>: [value, strong_count, weak_count]
    rc_freed,     \* number of Box::from_raw executed on the Rc block
    rc_dropped,   \* number of runs of the value's destructor (Rc block)
    rc_handles,   \* number of live Rc<T> handles
    rc_weaks,     \* number of live Weak<T> handles (my_weak.rs)
    rc_freedBy,   \* the operations that executed Box::from_raw, in order
    rc_hist,      \* the constructed value and how many times each
                  \* operation has completed
    arc_inner,    \* my_arc.rs Inner<T>: [value, strong_count, weak_count]
    arc_freed,    \* number of Box::from_raw executed on the Arc block
    arc_freedBy,  \* the operations that executed Box::from_raw
    arc_uaf,      \* TRUE once a counter of the freed block was accessed
    arc_handles,  \* per thread, the live Arc<T> handles it owns
    arc_weaks,    \* per thread, the live Weak<T> handles it owns
    arc_base,     \* strong count when the threads were started
    pc,           \* per thread, where it is inside an operation
    iter,         \* per thread, clone-then-drop rounds completed
    my_inner,     \* my_rc.rs Inner<T>: [value, ref_count]
    my_freed,     \* number of Box::from_raw executed on the MyRc block
    my_handles,   \* number of live MyRc<T> handles
    my_hist       \* the constructed value, how many times each operation
                  \* has completed, and the value the last deref gave

rcVars ==
    <<rc_inner, rc_freed, rc_dropped, rc_handles, rc_weaks, rc_freedBy,
      rc_hist>>

arcVars ==
    <<arc_inner, arc_freed, arc_freedBy, arc_uaf, arc_handles, arc_weaks,
      arc_base, pc, iter>>

myVars == <<my_inner, my_freed, my_handles, my_hist>>

vars == <<rcVars, arcVars, myVars>>

\* Values handed to the constructor (main passes 5).
Values == {5, 7}

\* Longest sequence of operations explored on the single-threaded block.
MaxOps == 7

\* Threads that use the Arc block concurrently.
ArcThreads == 2

\* Most Arc and Weak handles alive at once on the Arc block.
MaxHandles == 3

\* Width of usize in the model; AtomicUsize arithmetic wraps at 2^UsizeBits.
UsizeBits == 3

\* Worker threads and rounds per worker of the clone-then-drop stress run.
StressThreads == 3
StressIters == 2

\* Most strong handles the main thread holds when it starts the workers.
StressOriginals == 2

\* Longest sequence of operations explored on the MyRc block (main.rs runs
\* eight after MyRc::new: two clones, three derefs, three drops).
MaxMyOps == 8

-----------------------------------------------------------------------------
(***************************************************************************)
(* my_rc.rs: strong-only MyRc<T> (Inner<T> is the value and ref_count)     *)
(***************************************************************************)

\* MyRc::new: the freshly boxed Inner.
MyRc_new(value) == [value |-> value, ref_count |-> 1]

\* MyRc::clone: (*self.ptr.as_ptr()).ref_count += 1
MyRc_clone_inner(inner) == [inner EXCEPT !.ref_count = @ + 1]

\* Deref for MyRc: &(*self.ptr.as_ptr()).value
MyRc_deref(inner) == inner.value

\* Drop for MyRc: (*inner).ref_count -= 1
MyRc_drop_inner(inner) == [inner EXCEPT !.ref_count = @ - 1]

\* Faulty variant of Drop for MyRc: the block is freed one drop early.
MyRc_drop_frees_early(inner) == inner.ref_count <= 1

\* Drop for MyRc, `(*inner).ref_count == 0` after the decrement:
\* Box::from_raw.
MyRc_drop_frees(inner) == inner.ref_count = 0

\* Number of operations completed so far on the MyRc block.
MyRcOps == my_hist.clones + my_hist.derefs + my_hist.drops

\* No value has been read through a handle yet.
NotRead == 0

\* let rc1 = MyRc::new(value)
MyRcInit ==
    /\ \E v \in Values :
          /\ my_inner = MyRc_new(v)
          /\ my_hist = [constructed |-> v, clones |-> 0, derefs |-> 0,
                        drops |-> 0, read |-> NotRead]
    /\ my_freed = 0
    /\ my_handles = 1

\* The MyRc block is not in use.
MyRcUnused ==
    /\ my_inner = [value |-> 0, ref_count |-> 0]
    /\ my_freed = 0
    /\ my_handles = 0
    /\ my_hist = [constructed |-> 0, clones |-> 0, derefs |-> 0,
                  drops |-> 0, read |-> NotRead]

\* rc.clone() on a live handle.
MyRcClone ==
    /\ my_handles >= 1
    /\ MyRcOps < MaxMyOps
    /\ my_inner' = MyRc_clone_inner(my_inner)
    /\ my_handles' = my_handles + 1
    /\ my_hist' = [my_hist EXCEPT !.clones = @ + 1]
    /\ UNCHANGED my_freed

\* *rc on a live handle.
MyRcDeref ==
    /\ my_handles >= 1
    /\ MyRcOps < MaxMyOps
    /\ my_hist' = [my_hist EXCEPT !.derefs = @ + 1,
                                  !.read = MyRc_deref(my_inner)]
    /\ UNCHANGED <<my_inner, my_freed, my_handles>>

\* drop(rc) of a live handle.
MyRcDrop ==
    /\ my_handles >= 1
    /\ MyRcOps < MaxMyOps
    /\ my_inner' = MyRc_drop_inner(my_inner)
    /\ my_handles' = my_handles - 1
    /\ my_freed' = IF MyRc_drop_frees(my_inner') THEN my_freed + 1
                   ELSE my_freed
    /\ my_hist' = [my_hist EXCEPT !.drops = @ + 1]

-----------------------------------------------------------------------------
(***************************************************************************)
(* my_weak.rs: single-threaded Rc<T> / Weak<T>                             *)
(***************************************************************************)

\* Rc::new: the freshly boxed Inner.
Rc_new(value) == [value |-> value, strong_count |-> 1, weak_count |-> 0]

\* Rc::strong_count / Weak::strong_count: Cell::get of the strong counter.
Rc_strong_count(inner) == inner.strong_count

\* Rc::weak_count / Weak::weak_count: Cell::get of the weak counter.
Rc_weak_count(inner) == inner.weak_count

\* Deref for Rc: &self.inner().value
Rc_deref(inner) == inner.value

\* Rc::downgrade: weak_count.set(self.weak_count() + 1)
Rc_downgrade_inner(inner) ==
    [inner EXCEPT !.weak_count = Rc_weak_count(inner) + 1]

\* Faulty variant of Clone for Rc: the counter is not bumped.
Rc_clone_inner_no_increment(inner) == inner

\* Clone for Rc: strong_count.set(self.strong_count() + 1)
Rc_clone_inner(inner) ==
    [inner EXCEPT !.strong_count = Rc_strong_count(inner) + 1]

\* Faulty variant of Drop for Rc: the last strong handle frees the block
\* without looking at weak_count.
Rc_drop_branch_ignoring_weak(inner) ==
    IF Rc_strong_count(inner) > 1 THEN "dec" ELSE "free"

\* Drop for Rc, the branch taken: "dec" (strong_count > 1), "free"
\* (last strong handle, weak_count == 0), "zero" (last strong handle, weak
\* handles remain).
Rc_drop_branch(inner) ==
    IF Rc_strong_count(inner) > 1 THEN "dec"
    ELSE IF Rc_weak_count(inner) = 0 THEN "free"
    ELSE "zero"

\* Drop for Rc, the counters it leaves behind.
Rc_drop_inner(inner) ==
    CASE Rc_drop_branch(inner) = "dec" ->
             [inner EXCEPT !.strong_count = Rc_strong_count(inner) - 1]
      [] Rc_drop_branch(inner) = "zero" -> [inner EXCEPT !.strong_count = 0]
      [] OTHER -> inner

\* Faulty variant of Weak::upgrade: the test is off by one.
RcWeak_upgrade_none_off_by_one(inner) == Rc_strong_count(inner) <= 1

\* Faulty variant of Weak::upgrade: the test is missing.
RcWeak_upgrade_none_never(inner) == FALSE

\* Weak::upgrade, the test `strong_count == 0`: TRUE when it returns None.
RcWeak_upgrade_none(inner) == Rc_strong_count(inner) = 0

\* Weak::upgrade, the counters it leaves behind.
RcWeak_upgrade_inner(inner) ==
    IF RcWeak_upgrade_none(inner) THEN inner
    ELSE [inner EXCEPT !.strong_count = Rc_strong_count(inner) + 1]

\* Faulty variant of Clone for Weak: the counter is not bumped.
RcWeak_clone_inner_no_increment(inner) == inner

\* Clone for Weak: weak_count.set(self.weak_count() + 1)
RcWeak_clone_inner(inner) ==
    [inner EXCEPT !.weak_count = Rc_weak_count(inner) + 1]

\* Faulty variant of Drop for Weak: the last weak handle frees the block
\* without looking at strong_count.
RcWeak_drop_branch_ignoring_strong(inner) ==
    IF Rc_weak_count(inner) > 1 THEN "dec" ELSE "free"

\* Drop for Weak, the branch taken: "dec" (weak_count > 1), "free" (last
\* weak handle, strong_count == 0), "zero" (last weak handle, strong handles
\* remain).
RcWeak_drop_branch(inner) ==
    IF Rc_weak_count(inner) > 1 THEN "dec"
    ELSE IF Rc_strong_count(inner) = 0 THEN "free"
    ELSE "zero"

\* Drop for Weak, the counters it leaves behind.
RcWeak_drop_inner(inner) ==
    CASE RcWeak_drop_branch(inner) = "dec" ->
             [inner EXCEPT !.weak_count = Rc_weak_count(inner) - 1]
      [] RcWeak_drop_branch(inner) = "zero" -> [inner EXCEPT !.weak_count = 0]
      [] OTHER -> inner

\* Number of operations completed so far.
RcOps ==
    rc_hist.clones + rc_hist.downgrades + rc_hist.drops + rc_hist.upgrades
    + rc_hist.upgradeNone + rc_hist.weakClones + rc_hist.weakDrops

RcHist0(v) ==
    [constructed |-> v, clones |-> 0, downgrades |-> 0, drops |-> 0,
     upgrades |-> 0, upgradeNone |-> 0, weakClones |-> 0, weakDrops |-> 0]

\* let rc1 = Rc::new(value)
RcInit ==
    /\ \E v \in Values : rc_inner = Rc_new(v) /\ rc_hist = RcHist0(v)
    /\ rc_freed = 0
    /\ rc_dropped = 0
    /\ rc_handles = 1
    /\ rc_weaks = 0
    /\ rc_freedBy = <<>>

\* The Arc block is not in use.
ArcUnused ==
    /\ arc_inner = [value |-> 0, strong_count |-> 0, weak_count |-> 0]
    /\ arc_freed = 0
    /\ arc_freedBy = {}
    /\ arc_uaf = FALSE
    /\ arc_handles = <<>>
    /\ arc_weaks = <<>>
    /\ arc_base = 0
    /\ pc = <<>>
    /\ iter = <<>>

\* rc.clone() on a live strong handle.
RcClone ==
    /\ rc_handles >= 1
    /\ RcOps < MaxOps
    /\ rc_inner' = Rc_clone_inner(rc_inner)
    /\ rc_handles' = rc_handles + 1
    /\ rc_hist' = [rc_hist EXCEPT !.clones = @ + 1]
    /\ UNCHANGED <<rc_freed, rc_dropped, rc_weaks, rc_freedBy>>

\* rc.downgrade() on a live strong handle.
RcDowngrade ==
    /\ rc_handles >= 1
    /\ RcOps < MaxOps
    /\ rc_inner' = Rc_downgrade_inner(rc_inner)
    /\ rc_weaks' = rc_weaks + 1
    /\ rc_hist' = [rc_hist EXCEPT !.downgrades = @ + 1]
    /\ UNCHANGED <<rc_freed, rc_dropped, rc_handles, rc_freedBy>>

\* drop(rc) of a live strong handle.
RcDrop ==
    /\ rc_handles >= 1
    /\ RcOps < MaxOps
    /\ rc_inner' = Rc_drop_inner(rc_inner)
    /\ rc_handles' = rc_handles - 1
    /\ IF Rc_drop_branch(rc_inner) = "free"
       THEN /\ rc_freed' = rc_freed + 1
            /\ rc_dropped' = rc_dropped + 1
            /\ rc_freedBy' = Append(rc_freedBy, "Rc::drop")
       ELSE UNCHANGED <<rc_freed, rc_dropped, rc_freedBy>>
    /\ rc_hist' = [rc_hist EXCEPT !.drops = @ + 1]
    /\ UNCHANGED rc_weaks

\* weak.upgrade() on a live weak handle.
RcWeakUpgrade ==
    /\ rc_weaks >= 1
    /\ RcOps < MaxOps
    /\ rc_inner' = RcWeak_upgrade_inner(rc_inner)
    /\ IF RcWeak_upgrade_none(rc_inner)
       THEN /\ rc_hist' = [rc_hist EXCEPT !.upgradeNone = @ + 1]
            /\ UNCHANGED rc_handles
       ELSE /\ rc_hist' = [rc_hist EXCEPT !.upgrades = @ + 1]
            /\ rc_handles' = rc_handles + 1
    /\ UNCHANGED <<rc_freed, rc_dropped, rc_weaks, rc_freedBy>>

\* weak.clone() on a live weak handle.
RcWeakClone ==
    /\ rc_weaks >= 1
    /\ RcOps < MaxOps
    /\ rc_inner' = RcWeak_clone_inner(rc_inner)
    /\ rc_weaks' = rc_weaks + 1
    /\ rc_hist' = [rc_hist EXCEPT !.weakClones = @ + 1]
    /\ UNCHANGED <<rc_freed, rc_dropped, rc_handles, rc_freedBy>>

\* drop(weak) of a live weak handle.
RcWeakDrop ==
    /\ rc_weaks >= 1
    /\ RcOps < MaxOps
    /\ rc_inner' = RcWeak_drop_inner(rc_inner)
    /\ rc_weaks' = rc_weaks - 1
    /\ IF RcWeak_drop_branch(rc_inner) = "free"
       THEN /\ rc_freed' = rc_freed + 1
            /\ rc_dropped' = rc_dropped + 1
            /\ rc_freedBy' = Append(rc_freedBy, "Weak::drop")
       ELSE UNCHANGED <<rc_freed, rc_dropped, rc_freedBy>>
    /\ rc_hist' = [rc_hist EXCEPT !.weakDrops = @ + 1]
    /\ UNCHANGED rc_handles

RcNext ==
    \/ RcClone /\ UNCHANGED <<arcVars, myVars>>
    \/ RcDowngrade /\ UNCHANGED <<arcVars, myVars>>
    \/ RcDrop /\ UNCHANGED <<arcVars, myVars>>
    \/ RcWeakUpgrade /\ UNCHANGED <<arcVars, myVars>>
    \/ RcWeakClone /\ UNCHANGED <<arcVars, myVars>>
    \/ RcWeakDrop /\ UNCHANGED <<arcVars, myVars>>

\* The single-threaded program: only the Rc block is in use.
InitRc == RcInit /\ ArcUnused /\ MyRcUnused

SpecRc == InitRc /\ [][RcNext]_vars

-----------------------------------------------------------------------------
(***************************************************************************)
(* Properties of the single-threaded variant (under SpecRc)                *)
(***************************************************************************)

\* A step of SpecRc that is a call of Weak::upgrade.
RcUpgradeStep ==
    rc_hist'.upgrades + rc_hist'.upgradeNone
        = rc_hist.upgrades + rc_hist.upgradeNone + 1

\* C4: the block is freed, and the value's destructor run, exactly once,
\* and the free is done by the disposal of the last remaining handle: the
\* block is freed exactly in the states where no handle is left, by
\* Rc::drop when the last handle was strong and by Weak::drop when it was
\* weak.
C4_FreedOnceByLastHandle ==
    /\ [](/\ rc_freed <= 1
          /\ rc_dropped = rc_freed
          /\ Len(rc_freedBy) = rc_freed
          /\ (rc_freed = 1) <=> (rc_handles + rc_weaks = 0))
    /\ [][(rc_freed' # rc_freed) =>
            /\ rc_handles' + rc_weaks' = 0
            /\ (rc_handles = 1 /\ rc_weaks = 0) => rc_freedBy' = <<"Rc::drop">>
            /\ (rc_handles = 0 /\ rc_weaks = 1) => rc_freedBy' = <<"Weak::drop">>
         ]_vars

\* C4 witness: strong handles went first, the last weak handle freed the
\* block, after clones, a downgrade and an upgrade.
C4_Witness ==
    /\ rc_handles + rc_weaks = 0
    /\ rc_freedBy = <<"Weak::drop">>
    /\ rc_hist.clones >= 1
    /\ rc_hist.upgrades >= 1
    /\ rc_dropped = 1

\* C5 (as claimed): once the last strong handle is gone and weak handles
\* remain, the value has been destroyed and the block is still allocated.
C5_ValueDestroyedAtLastStrongDrop ==
    (rc_handles = 0 /\ rc_weaks >= 1) => (rc_dropped = 1 /\ rc_freed = 0)

\* C6: while the block is allocated the strong count is 1 + clones +
\* successful upgrades - strong drops, is the number of live strong
\* handles, and is not negative.
C6_StrongCountIsLiveHandles ==
    rc_freed = 0 =>
        /\ Rc_strong_count(rc_inner)
               = 1 + rc_hist.clones + rc_hist.upgrades - rc_hist.drops
        /\ Rc_strong_count(rc_inner) = rc_handles
        /\ Rc_strong_count(rc_inner) >= 0

\* C6 witness: a clone, a successful upgrade and a strong drop have all
\* happened on a block that is still allocated.
C6_Witness ==
    /\ rc_freed = 0
    /\ rc_hist.clones >= 1
    /\ rc_hist.upgrades >= 1
    /\ rc_hist.drops >= 2
    /\ Rc_strong_count(rc_inner) = 1

C10_UpgradeAfterDeathReturnsNone ==
    [][(RcUpgradeStep /\ rc_handles = 0) =>
        /\ rc_hist'.upgradeNone = rc_hist.upgradeNone + 1
        /\ rc_hist'.upgrades = rc_hist.upgrades
        /\ rc_handles' = 0
        /\ Rc_strong_count(rc_inner') = 0
        /\ Rc_weak_count(rc_inner') = Rc_weak_count(rc_inner)
        /\ rc_weaks' = rc_weaks
        /\ rc_freed' = 0
    ]_vars

\* C10 witness: two weak handles survive the last strong handle and
\* upgrade has been called twice since, returning nothing both times.
C10_Witness ==
    /\ rc_handles = 0
    /\ rc_weaks >= 2
    /\ rc_hist.upgradeNone >= 2
    /\ rc_freed = 0

-----------------------------------------------------------------------------
(***************************************************************************)
(* my_arc.rs: Arc<T> / Weak<T> with AtomicUsize counters.                  *)
(* Every atomic instruction (fetch_add, fetch_sub, load, store, fence) and *)
(* every Box::from_raw is one step of the thread that executes it; steps   *)
(* of different threads interleave freely.  A thread works on the handles  *)
(* it owns.  The actions leave iter to the program that takes them.        *)
(* An access to the block after Box::from_raw and a second Box::from_raw   *)
(* are undefined behaviour: the access is recorded in                      *)
(* arc_uaf and its load yields any value, the second free is counted in    *)
(* arc_freed.  An execution is followed up to and including its first      *)
(* undefined step; the source says nothing about what follows it.          *)
(***************************************************************************)

\* AtomicUsize values.
Modulus == 2 ^ UsizeBits

\* Arc::new: the freshly boxed Inner.
Arc_new(value) == [value |-> value, strong_count |-> 1, weak_count |-> 0]

\* Faulty variant of fetch_add: the increment is lost.
FetchAdd_lost(c) == c

\* AtomicUsize::fetch_add(1, _): the stored value, wrapping.
FetchAdd(c) == (c + 1) % Modulus

\* AtomicUsize::fetch_sub(1, _): the stored value, wrapping.
FetchSub(c) == (c - 1) % Modulus

\* inner(): the block behind self.ptr has (not) been given back.
ArcDangling == arc_freed > 0

\* AtomicUsize::load: the values a load of a counter holding c may return.
Loaded(c) == IF ArcDangling THEN 0 .. (Modulus - 1) ELSE {c}

\* The block after a write that makes it `new`.
Written(new) == IF ArcDangling THEN arc_inner ELSE new

\* Any access through self.inner().
ArcAccess == arc_uaf' = (arc_uaf \/ ArcDangling)

\* No step so far had undefined behaviour.
ArcDefined == ~arc_uaf /\ arc_freed <= 1

\* Handles alive on the Arc block.
RECURSIVE SumOver(_, _)
SumOver(f, S) ==
    IF S = {} THEN 0
    ELSE LET x == CHOOSE y \in S : TRUE IN f[x] + SumOver(f, S \ {x})

ArcLiveStrong == SumOver(arc_handles, DOMAIN arc_handles)
ArcLiveWeak == SumOver(arc_weaks, DOMAIN arc_weaks)

\* Faulty variant of Drop for Arc: the test is on the value left behind
\* (`<= 1` for `== 1`), so the thread that found 0 tears down too.
Arc_drop_is_last_or_none(old) == old <= 1

\* Drop for Arc, `fetch_sub(1, Release) == 1`: this thread tears down.
Arc_drop_is_last(old) == old = 1

\* Drop for Arc, `self.weak_count() == 0`: free the block now.
Arc_drop_frees(weak_count) == weak_count = 0

\* Weak::upgrade, `strong_count == 0`: return None.
ArcWeak_upgrade_none(strong_count) == strong_count = 0

\* Drop for Weak, `fetch_sub(1, Release) == 1`: this thread looks further.
ArcWeak_drop_is_last(old) == old = 1

\* Faulty variant of Drop for Weak: the last weak handle frees the block
\* without looking at strong_count.
ArcWeak_drop_frees_always(strong_count) == TRUE

\* Drop for Weak, `self.strong_count() == 0`: free the block now.
ArcWeak_drop_frees(strong_count) == strong_count = 0

\* Box::from_raw(self.ptr.as_ptr()) executed by operation `op`.
BoxFromRaw(op) ==
    /\ arc_freed' = arc_freed + 1
    /\ arc_freedBy' = arc_freedBy \cup {op}

\* Another handle may be created (the bound on live handles).
ArcRoom == ArcLiveStrong + ArcLiveWeak < MaxHandles

\* Thread t is at `label` of an execution that is still defined.
ArcAt(t, label) == ArcDefined /\ pc[t] = label

\* let arc1 = Arc::new(value), owned by thread `main` of `threads`.
ArcInit(threads, main) ==
    /\ \E v \in Values : arc_inner = Arc_new(v)
    /\ arc_freed = 0
    /\ arc_freedBy = {}
    /\ arc_uaf = FALSE
    /\ arc_handles = [t \in threads |-> IF t = main THEN 1 ELSE 0]
    /\ arc_weaks = [t \in threads |-> 0]
    /\ arc_base = 1
    /\ pc = [t \in threads |-> "idle"]
    /\ iter = [t \in threads |-> 0]

\* Arc::clone by thread t on a handle owned by `owner`: one fetch_add.
ArcClone(t, owner) ==
    /\ ArcAt(t, "idle")
    /\ arc_handles[owner] >= 1
    /\ arc_inner' = Written([arc_inner EXCEPT
                                !.strong_count = FetchAdd(arc_inner.strong_count)])
    /\ ArcAccess
    /\ arc_handles' = [arc_handles EXCEPT ![t] = @ + 1]
    /\ UNCHANGED <<arc_freed, arc_freedBy, arc_weaks, arc_base, pc>>

\* Arc::downgrade by thread t: one fetch_add on weak_count.
ArcDowngrade(t) ==
    /\ ArcAt(t, "idle")
    /\ arc_handles[t] >= 1
    /\ arc_inner' = Written([arc_inner EXCEPT
                                !.weak_count = FetchAdd(arc_inner.weak_count)])
    /\ ArcAccess
    /\ arc_weaks' = [arc_weaks EXCEPT ![t] = @ + 1]
    /\ UNCHANGED <<arc_freed, arc_freedBy, arc_handles, arc_base, pc>>

\* Drop for Arc, line 67: strong_count.fetch_sub(1, Release) and the test
\* of the value it returns.
ArcDropFetchSub(t) ==
    /\ ArcAt(t, "idle")
    /\ arc_handles[t] >= 1
    /\ \E old \in Loaded(arc_inner.strong_count) :
          pc' = [pc EXCEPT ![t] = IF Arc_drop_is_last(old)
                                  THEN "arc_drop_fence" ELSE "idle"]
    /\ arc_inner' = Written([arc_inner EXCEPT
                                !.strong_count = FetchSub(arc_inner.strong_count)])
    /\ ArcAccess
    /\ arc_handles' = [arc_handles EXCEPT ![t] = @ - 1]
    /\ UNCHANGED <<arc_freed, arc_freedBy, arc_weaks, arc_base>>

\* Drop for Arc, line 68: fence(Acquire).
ArcDropFence(t) ==
    /\ ArcAt(t, "arc_drop_fence")
    /\ pc' = [pc EXCEPT ![t] = "arc_drop_load_weak"]
    /\ UNCHANGED <<arc_inner, arc_freed, arc_freedBy, arc_uaf, arc_handles,
                   arc_weaks, arc_base>>

\* Drop for Arc, line 69: self.weak_count() and the test of it.
ArcDropLoadWeak(t) ==
    /\ ArcAt(t, "arc_drop_load_weak")
    /\ \E w \in Loaded(arc_inner.weak_count) :
          pc' = [pc EXCEPT ![t] = IF Arc_drop_frees(w)
                                  THEN "arc_drop_free" ELSE "arc_drop_store"]
    /\ ArcAccess
    /\ UNCHANGED <<arc_inner, arc_freed, arc_freedBy, arc_handles, arc_weaks,
                   arc_base>>

\* Drop for Arc, lines 70-72: Box::from_raw.
ArcDropFree(t) ==
    /\ ArcAt(t, "arc_drop_free")
    /\ BoxFromRaw("Arc::drop")
    /\ pc' = [pc EXCEPT ![t] = "idle"]
    /\ UNCHANGED <<arc_inner, arc_uaf, arc_handles, arc_weaks, arc_base>>

\* Drop for Arc, line 74: strong_count.store(0, Relaxed).
ArcDropStore(t) ==
    /\ ArcAt(t, "arc_drop_store")
    /\ arc_inner' = Written([arc_inner EXCEPT !.strong_count = 0])
    /\ ArcAccess
    /\ pc' = [pc EXCEPT ![t] = "idle"]
    /\ UNCHANGED <<arc_freed, arc_freedBy, arc_handles, arc_weaks, arc_base>>

\* Weak::upgrade, lines 82-84: self.strong_count() and the test of it.
ArcWeakUpgradeLoad(t) ==
    /\ ArcAt(t, "idle")
    /\ arc_weaks[t] >= 1
    /\ \E s \in Loaded(arc_inner.strong_count) :
          pc' = [pc EXCEPT ![t] = IF ArcWeak_upgrade_none(s)
                                  THEN "idle" ELSE "upgrade_fetch_add"]
    /\ ArcAccess
    /\ UNCHANGED <<arc_inner, arc_freed, arc_freedBy, arc_handles, arc_weaks,
                   arc_base>>

\* Weak::upgrade, lines 86-87: strong_count.fetch_add(1, Relaxed) and the
\* new Arc.
ArcWeakUpgradeFetchAdd(t) ==
    /\ ArcAt(t, "upgrade_fetch_add")
    /\ arc_inner' = Written([arc_inner EXCEPT
                                !.strong_count = FetchAdd(arc_inner.strong_count)])
    /\ ArcAccess
    /\ arc_handles' = [arc_handles EXCEPT ![t] = @ + 1]
    /\ pc' = [pc EXCEPT ![t] = "idle"]
    /\ UNCHANGED <<arc_freed, arc_freedBy, arc_weaks, arc_base>>

\* Clone for Weak by thread t: one fetch_add on weak_count.
ArcWeakClone(t) ==
    /\ ArcAt(t, "idle")
    /\ arc_weaks[t] >= 1
    /\ arc_inner' = Written([arc_inner EXCEPT
                                !.weak_count = FetchAdd(arc_inner.weak_count)])
    /\ ArcAccess
    /\ arc_weaks' = [arc_weaks EXCEPT ![t] = @ + 1]
    /\ UNCHANGED <<arc_freed, arc_freedBy, arc_handles, arc_base, pc>>

\* Drop for Weak, line 113: weak_count.fetch_sub(1, Release) and the test
\* of the value it returns.
ArcWeakDropFetchSub(t) ==
    /\ ArcAt(t, "idle")
    /\ arc_weaks[t] >= 1
    /\ \E old \in Loaded(arc_inner.weak_count) :
          pc' = [pc EXCEPT ![t] = IF ArcWeak_drop_is_last(old)
                                  THEN "weak_drop_fence" ELSE "idle"]
    /\ arc_inner' = Written([arc_inner EXCEPT
                                !.weak_count = FetchSub(arc_inner.weak_count)])
    /\ ArcAccess
    /\ arc_weaks' = [arc_weaks EXCEPT ![t] = @ - 1]
    /\ UNCHANGED <<arc_freed, arc_freedBy, arc_handles, arc_base>>

\* Drop for Weak, line 114: fence(Acquire).
ArcWeakDropFence(t) ==
    /\ ArcAt(t, "weak_drop_fence")
    /\ pc' = [pc EXCEPT ![t] = "weak_drop_load_strong"]
    /\ UNCHANGED <<arc_inner, arc_freed, arc_freedBy, arc_uaf, arc_handles,
                   arc_weaks, arc_base>>

\* Drop for Weak, line 115: self.strong_count() and the test of it.
ArcWeakDropLoadStrong(t) ==
    /\ ArcAt(t, "weak_drop_load_strong")
    /\ \E s \in Loaded(arc_inner.strong_count) :
          pc' = [pc EXCEPT ![t] = IF ArcWeak_drop_frees(s)
                                  THEN "weak_drop_free" ELSE "idle"]
    /\ ArcAccess
    /\ UNCHANGED <<arc_inner, arc_freed, arc_freedBy, arc_handles, arc_weaks,
                   arc_base>>

\* Drop for Weak, lines 116-118: Box::from_raw.
ArcWeakDropFree(t) ==
    /\ ArcAt(t, "weak_drop_free")
    /\ BoxFromRaw("Weak::drop")
    /\ pc' = [pc EXCEPT ![t] = "idle"]
    /\ UNCHANGED <<arc_inner, arc_uaf, arc_handles, arc_weaks, arc_base>>

\* An Arc handle is moved from idle thread t to thread u (struct Arc is
\* only the pointer; the move touches no counter).
ArcSend(t, u) ==
    /\ t # u
    /\ ArcAt(t, "idle")
    /\ arc_handles[t] >= 1
    /\ arc_handles' = [arc_handles EXCEPT ![t] = @ - 1, ![u] = @ + 1]
    /\ UNCHANGED <<arc_inner, arc_freed, arc_freedBy, arc_uaf, arc_weaks,
                   arc_base, pc>>

\* A Weak handle is moved from idle thread t to thread u.
ArcWeakSend(t, u) ==
    /\ t # u
    /\ ArcAt(t, "idle")
    /\ arc_weaks[t] >= 1
    /\ arc_weaks' = [arc_weaks EXCEPT ![t] = @ - 1, ![u] = @ + 1]
    /\ UNCHANGED <<arc_inner, arc_freed, arc_freedBy, arc_uaf, arc_handles,
                   arc_base, pc>>

\* The Rc block is not in use.
RcUnused ==
    /\ rc_inner = [value |-> 0, strong_count |-> 0, weak_count |-> 0]
    /\ rc_freed = 0
    /\ rc_dropped = 0
    /\ rc_handles = 0
    /\ rc_weaks = 0
    /\ rc_freedBy = <<>>
    /\ rc_hist = RcHist0(0)

\* Threads of the concurrent program.
Threads == 1 .. ArcThreads

\* The concurrent program: thread 1 calls Arc::new.
InitArc == ArcInit(Threads, 1) /\ RcUnused /\ MyRcUnused

ArcNext ==
    \E t \in Threads :
        \/ ArcRoom /\ ArcClone(t, t) /\ UNCHANGED <<rcVars, myVars, iter>>
        \/ ArcRoom /\ ArcDowngrade(t) /\ UNCHANGED <<rcVars, myVars, iter>>
        \/ ArcDropFetchSub(t) /\ UNCHANGED <<rcVars, myVars, iter>>
        \/ ArcDropFence(t) /\ UNCHANGED <<rcVars, myVars, iter>>
        \/ ArcDropLoadWeak(t) /\ UNCHANGED <<rcVars, myVars, iter>>
        \/ ArcDropFree(t) /\ UNCHANGED <<rcVars, myVars, iter>>
        \/ ArcDropStore(t) /\ UNCHANGED <<rcVars, myVars, iter>>
        \/ ArcRoom /\ ArcWeakUpgradeLoad(t) /\ UNCHANGED <<rcVars, myVars, iter>>
        \/ ArcWeakUpgradeFetchAdd(t) /\ UNCHANGED <<rcVars, myVars, iter>>
        \/ ArcRoom /\ ArcWeakClone(t) /\ UNCHANGED <<rcVars, myVars, iter>>
        \/ ArcWeakDropFetchSub(t) /\ UNCHANGED <<rcVars, myVars, iter>>
        \/ ArcWeakDropFence(t) /\ UNCHANGED <<rcVars, myVars, iter>>
        \/ ArcWeakDropLoadStrong(t) /\ UNCHANGED <<rcVars, myVars, iter>>
        \/ ArcWeakDropFree(t) /\ UNCHANGED <<rcVars, myVars, iter>>
        \/ \E u \in Threads : ArcSend(t, u) /\ UNCHANGED <<rcVars, myVars, iter>>
        \/ \E u \in Threads : ArcWeakSend(t, u) /\ UNCHANGED <<rcVars, myVars, iter>>

SpecArc == InitArc /\ [][ArcNext]_vars


-----------------------------------------------------------------------------
(***************************************************************************)
(* Properties of the thread-safe variant (under SpecArc)                   *)
(***************************************************************************)

\* Every handle has been disposed and no thread is inside an operation.
ArcAllDisposed ==
    /\ ArcLiveStrong + ArcLiveWeak = 0
    /\ \A t \in DOMAIN pc : pc[t] = "idle"

\* C1 (as claimed): the block is freed at most once, never by both
\* Arc::drop and Weak::drop, and exactly once when every handle is gone.
C1_FreedExactlyOnce ==
    /\ arc_freed <= 1
    /\ arc_freedBy # {"Arc::drop", "Weak::drop"}
    /\ ArcAllDisposed => arc_freed = 1


\* C2 (as claimed): the fetch_add of Weak::upgrade, after which it
\* returns Some, is never applied to a strong count that is zero.
C2_UpgradeNeverRevives ==
    [][\A t \in DOMAIN pc :
          (pc[t] = "upgrade_fetch_add" /\ pc'[t] = "idle")
              => arc_inner.strong_count # 0]_vars

\* C3 (as claimed): no counter of a freed block is accessed, and the
\* block is not freed while a strong handle is live.
C3_NoUseAfterFree ==
    /\ ~arc_uaf
    /\ ArcLiveStrong >= 1 => arc_freed = 0

\* C8 (as claimed): once every handle is disposed and every operation has
\* completed, the block has been freed.
C8_NoLeak == ArcAllDisposed => arc_freed >= 1

-----------------------------------------------------------------------------
(***************************************************************************)
(* The clone-then-drop stress run on my_arc.rs: the main thread (0) holds  *)
(* the original handles, every worker clones one of them and drops the     *)
(* clone, StressIters times; once the workers are joined the main thread   *)
(* drops its own handles.                                                  *)
(***************************************************************************)

Workers == 1 .. StressThreads

StressAll == 0 .. StressThreads

\* The main thread has built the block, holds s0 strong handles and w0
\* weak handles, and starts the workers.
InitStress ==
    /\ \E v \in Values, s0 \in 1 .. StressOriginals, w0 \in 0 .. 1 :
          /\ arc_inner = [value |-> v, strong_count |-> s0, weak_count |-> w0]
          /\ arc_handles = [t \in StressAll |-> IF t = 0 THEN s0 ELSE 0]
          /\ arc_weaks = [t \in StressAll |-> IF t = 0 THEN w0 ELSE 0]
          /\ arc_base = s0
    /\ arc_freed = 0
    /\ arc_freedBy = {}
    /\ arc_uaf = FALSE
    /\ pc = [t \in StressAll |-> "idle"]
    /\ iter = [t \in StressAll |-> 0]
    /\ RcUnused
    /\ MyRcUnused

\* Every worker has finished its rounds (the main thread has joined them).
StressJoined ==
    \A t \in Workers :
        iter[t] = StressIters /\ arc_handles[t] = 0 /\ pc[t] = "idle"

\* Worker t starts a round: it clones a handle of the main thread.
StressClone(t) ==
    /\ iter[t] < StressIters
    /\ arc_handles[t] = 0
    /\ ArcClone(t, 0)
    /\ iter' = [iter EXCEPT ![t] = @ + 1]

\* Worker t drops its clone; the main thread, after the join, drops its
\* handles.
StressDrop(t) ==
    /\ t = 0 => StressJoined
    /\ ArcDropFetchSub(t)
    /\ UNCHANGED iter

StressNext ==
    \/ \E t \in Workers : StressClone(t) /\ UNCHANGED <<rcVars, myVars>>
    \/ \E t \in StressAll : StressDrop(t) /\ UNCHANGED <<rcVars, myVars>>
    \/ \E t \in StressAll : ArcDropFence(t) /\ UNCHANGED <<rcVars, myVars, iter>>
    \/ \E t \in StressAll : ArcDropLoadWeak(t) /\ UNCHANGED <<rcVars, myVars, iter>>
    \/ \E t \in StressAll : ArcDropFree(t) /\ UNCHANGED <<rcVars, myVars, iter>>
    \/ \E t \in StressAll : ArcDropStore(t) /\ UNCHANGED <<rcVars, myVars, iter>>

SpecStress == InitStress /\ [][StressNext]_vars

\* The main thread still holds every original handle.
StressOriginalLive == arc_handles[0] = arc_base /\ pc[0] = "idle"

\* C7: while the original handles stay live, under every interleaving of
\* the workers' fetch_add and fetch_sub, the strong count is the count
\* before the run plus the clones now alive, no worker tears the block
\* down, the block is not freed and no counter of a freed block is
\* touched; after the join the strong count is the count before the run.
\* The block is never freed twice.
C7_StressKeepsCount ==
    /\ arc_freed <= 1
    /\ StressOriginalLive =>
          /\ arc_inner.strong_count
                 = arc_base + SumOver(arc_handles, Workers)
          /\ \A t \in Workers : pc[t] = "idle"
          /\ arc_freed = 0
          /\ ~arc_uaf
    /\ (StressOriginalLive /\ StressJoined) =>
          arc_inner.strong_count = arc_base

\* C7 witness: all workers have done all their rounds and the original
\* handles are still live.
C7_Witness ==
    /\ StressOriginalLive
    /\ StressJoined
    /\ arc_base = 2
    /\ arc_inner.strong_count = 2
    /\ arc_freed = 0

-----------------------------------------------------------------------------
(***************************************************************************)
(* Further properties of the thread-safe variant (under SpecArc)           *)
(***************************************************************************)

\* The step is the first Box::from_raw on the Arc block.
ArcFirstFreeStep == arc_freed = 0 /\ arc_freed' = 1

\* The step is the fetch_sub of Drop for Arc on a block still allocated.
ArcStrongFetchSubStep ==
    ~ArcDangling /\ ArcLiveStrong' = ArcLiveStrong - 1

\* The step is the fetch_sub of Drop for Weak on a block still allocated.
ArcWeakFetchSubStep ==
    ~ArcDangling /\ ArcLiveWeak' = ArcLiveWeak - 1

\* C11 (as claimed): at the moment a thread frees the block, the strong
\* counter and the weak counter both hold 0.
C11_FreeOnlyWhenBothZero ==
    [][ArcFirstFreeStep =>
          (arc_inner.strong_count = 0 /\ arc_inner.weak_count = 0)]_vars

\* C14 (as claimed): fetch_sub is never applied to a strong or weak
\* counter that holds 0, so no counter wraps to 2^w - 1.
C14_NoFetchSubAtZero ==
    [][/\ ArcStrongFetchSubStep =>
            (arc_inner.strong_count # 0
             /\ arc_inner'.strong_count # Modulus - 1)
       /\ ArcWeakFetchSubStep =>
            (arc_inner.weak_count # 0
             /\ arc_inner'.weak_count # Modulus - 1)]_vars

\* Thread t moves to `label` in this step.
ArcEnters(t, label) == pc[t] # label /\ pc'[t] = label

\* C15: a thread reaches the Acquire fence of Drop for Arc (Drop for Weak)
\* only straight from the Release fetch_sub on strong_count (weak_count)
\* that returned 1, reaches the load and the Box::from_raw only through
\* that fence, and every Box::from_raw is executed by a thread that came
\* this way; a thread whose fetch_sub returned another value goes back to
\* idle without fence or free.  (The value a fetch_sub returns from a
\* block already freed is not determined by the counter.)
C15_FreeOnlyAfterLastDecrementAndFence ==
    [][\A t \in DOMAIN pc :
          /\ ArcEnters(t, "arc_drop_fence") =>
                (pc[t] = "idle"
                 /\ arc_handles'[t] = arc_handles[t] - 1
                 /\ ArcLiveStrong' = ArcLiveStrong - 1
                 /\ (ArcDangling \/ arc_inner.strong_count = 1))
          /\ ArcEnters(t, "arc_drop_load_weak") => pc[t] = "arc_drop_fence"
          /\ ArcEnters(t, "arc_drop_free") => pc[t] = "arc_drop_load_weak"
          /\ ArcEnters(t, "arc_drop_store") => pc[t] = "arc_drop_load_weak"
          /\ ArcEnters(t, "weak_drop_fence") =>
                (pc[t] = "idle"
                 /\ arc_weaks'[t] = arc_weaks[t] - 1
                 /\ ArcLiveWeak' = ArcLiveWeak - 1
                 /\ (ArcDangling \/ arc_inner.weak_count = 1))
          /\ ArcEnters(t, "weak_drop_load_strong") =>
                pc[t] = "weak_drop_fence"
          /\ ArcEnters(t, "weak_drop_free") =>
                pc[t] = "weak_drop_load_strong"
          /\ (arc_handles'[t] < arc_handles[t] /\ arc_inner.strong_count # 1
              /\ ArcStrongFetchSubStep) => pc'[t] = "idle"
          /\ (arc_weaks'[t] < arc_weaks[t] /\ arc_inner.weak_count # 1
              /\ ArcWeakFetchSubStep) => pc'[t] = "idle"
          /\ (arc_freed' # arc_freed /\ pc'[t] # pc[t]) =>
                (pc[t] \in {"arc_drop_free", "weak_drop_free"}
                 /\ pc'[t] = "idle")
    ]_vars

\* C15 witness: the block has been freed by Drop for Weak while another
\* thread, whose fetch_sub on strong_count returned 2, is back at idle.
C15_Witness ==
    /\ arc_freed = 1
    /\ arc_freedBy = {"Weak::drop"}
    /\ ~arc_uaf
    /\ ArcLiveStrong + ArcLiveWeak = 0
    /\ \A t \in DOMAIN pc : pc[t] = "idle"

\* Thread t executes strong_count.store(0, Relaxed) of Drop for Arc on a
\* block still allocated.
ArcStoreStep(t) ==
    pc[t] = "arc_drop_store" /\ pc'[t] = "idle" /\ ~ArcDangling

\* C12 (as claimed): the store of 0 in Drop for Arc can be omitted: every
\* execution of it writes the value strong_count already holds, so the run
\* with the store and the run without it have the same counters, the same
\* upgrade results and the same frees.
C12_StoreIsRedundant ==
    [][\A t \in DOMAIN pc : ArcStoreStep(t) => arc_inner' = arc_inner]_vars

-----------------------------------------------------------------------------
(***************************************************************************)
(* Arc/Weak run by one thread, operation by operation, next to Rc/Weak     *)
(***************************************************************************)

\* The one thread of the sequential Arc program.
SeqThread == 1

\* Rc::new(v) and Arc::new(v) with the same v.
InitLockstep ==
    /\ RcInit
    /\ ArcInit({SeqThread}, SeqThread)
    /\ arc_inner.value = rc_inner.value
    /\ MyRcUnused

\* The same operation is started on both blocks.
LockClone == ArcRoom /\ RcClone /\ ArcClone(SeqThread, SeqThread)
LockDowngrade == ArcRoom /\ RcDowngrade /\ ArcDowngrade(SeqThread)
LockDrop == RcDrop /\ ArcDropFetchSub(SeqThread)
LockUpgrade == ArcRoom /\ RcWeakUpgrade /\ ArcWeakUpgradeLoad(SeqThread)
LockWeakClone == ArcRoom /\ RcWeakClone /\ ArcWeakClone(SeqThread)
LockWeakDrop == RcWeakDrop /\ ArcWeakDropFetchSub(SeqThread)

\* Each operation on the Arc block runs to its end before the next one
\* starts: the steps after the first one leave the Rc block alone.
LockstepNext ==
    \/ LockClone /\ UNCHANGED <<myVars, iter>>
    \/ LockDowngrade /\ UNCHANGED <<myVars, iter>>
    \/ LockDrop /\ UNCHANGED <<myVars, iter>>
    \/ LockUpgrade /\ UNCHANGED <<myVars, iter>>
    \/ LockWeakClone /\ UNCHANGED <<myVars, iter>>
    \/ LockWeakDrop /\ UNCHANGED <<myVars, iter>>
    \/ ArcDropFence(SeqThread) /\ UNCHANGED <<rcVars, myVars, iter>>
    \/ ArcDropLoadWeak(SeqThread) /\ UNCHANGED <<rcVars, myVars, iter>>
    \/ ArcDropFree(SeqThread) /\ UNCHANGED <<rcVars, myVars, iter>>
    \/ ArcDropStore(SeqThread) /\ UNCHANGED <<rcVars, myVars, iter>>
    \/ ArcWeakUpgradeFetchAdd(SeqThread) /\ UNCHANGED <<rcVars, myVars, iter>>
    \/ ArcWeakDropFence(SeqThread) /\ UNCHANGED <<rcVars, myVars, iter>>
    \/ ArcWeakDropLoadStrong(SeqThread) /\ UNCHANGED <<rcVars, myVars, iter>>
    \/ ArcWeakDropFree(SeqThread) /\ UNCHANGED <<rcVars, myVars, iter>>

SpecLockstep == InitLockstep /\ [][LockstepNext]_vars

\* The operation started last has completed on the Arc block.
LockstepObservable == pc[SeqThread] = "idle"

\* C13: after each operation of a sequence run on both blocks, Arc/Weak
\* and Rc/Weak hold the same handles (so every upgrade gave the same
\* result), both blocks have been freed or neither has (so the free
\* happened at the same operation), and while allocated they show the
\* same strong count, weak count and value; the Arc run has no undefined
\* step.
C13_SequentialArcIsRc ==
    LockstepObservable =>
        /\ arc_handles[SeqThread] = rc_handles
        /\ arc_weaks[SeqThread] = rc_weaks
        /\ arc_freed = rc_freed
        /\ ~arc_uaf
        /\ rc_freed = 0 =>
              /\ arc_inner.strong_count = Rc_strong_count(rc_inner)
              /\ arc_inner.weak_count = Rc_weak_count(rc_inner)
              /\ arc_inner.value = Rc_deref(rc_inner)

\* C13 witness: both blocks have been freed by the drop of the last Weak,
\* after one upgrade that returned a handle and one that returned None.
C13_Witness ==
    /\ LockstepObservable
    /\ rc_freed = 1
    /\ arc_freed = 1
    /\ arc_freedBy = {"Weak::drop"}
    /\ rc_hist.upgrades >= 1
    /\ rc_hist.upgradeNone >= 1

-----------------------------------------------------------------------------
(***************************************************************************)
(* my_weak.rs: what each operation leaves alone, and the weak count        *)
(***************************************************************************)

\* The step is a completed call of the operation counted in rc_hist[op].
RcStepOf(op) == rc_hist'[op] = rc_hist[op] + 1

\* The step leaves the strong counter of the allocated block as it was.
RcStrongKept ==
    rc_freed' = 0 => Rc_strong_count(rc_inner') = Rc_strong_count(rc_inner)

\* The step leaves the weak counter of the allocated block as it was.
RcWeakKept ==
    rc_freed' = 0 => Rc_weak_count(rc_inner') = Rc_weak_count(rc_inner)

\* C16: clone and drop of a strong handle and a successful upgrade leave
\* the weak count unchanged; downgrade, weak clone and drop of a weak
\* handle leave the strong count unchanged; the drop of the last weak
\* handle while strong handles exist leaves the block allocated with its
\* strong count and value; no operation changes the stored value.
C16_CountersIndependent ==
    [][/\ Rc_deref(rc_inner') = Rc_deref(rc_inner)
       /\ (RcStepOf("clones") \/ RcStepOf("drops") \/ RcStepOf("upgrades"))
             => RcWeakKept
       /\ (RcStepOf("downgrades") \/ RcStepOf("weakClones")
           \/ RcStepOf("weakDrops")) => RcStrongKept
       /\ (RcStepOf("weakDrops") /\ rc_weaks = 1 /\ rc_handles >= 1) =>
             /\ rc_freed' = 0
             /\ rc_dropped' = 0
             /\ Rc_strong_count(rc_inner') = Rc_strong_count(rc_inner)
             /\ Rc_strong_count(rc_inner') = rc_handles
    ]_vars

\* C16 witness: the last weak handle has been dropped while two strong
\* handles exist, and the block is allocated with both counted.
C16_Witness ==
    /\ rc_hist.downgrades >= 1
    /\ rc_hist.weakDrops >= 1
    /\ rc_weaks = 0
    /\ rc_handles = 2
    /\ rc_freed = 0
    /\ Rc_strong_count(rc_inner) = 2
    /\ Rc_weak_count(rc_inner) = 0

\* Live weak handles according to the operations completed so far.
RcWeakHandlesMade ==
    rc_hist.downgrades + rc_hist.weakClones - rc_hist.weakDrops

\* C17: while the block is allocated, also after the strong count reached
\* 0, the weak count is the number of live weak handles: 0 after
\* construction, one more for each downgrade and each weak clone, one less
\* for each drop of a weak handle.
C17_WeakCountIsLiveWeakHandles ==
    rc_freed = 0 =>
        /\ Rc_weak_count(rc_inner) = rc_weaks
        /\ Rc_weak_count(rc_inner) = RcWeakHandlesMade

\* C17 witness: the strong count has reached 0, weak handles were cloned
\* and dropped, and two are left on the allocated block.
C17_Witness ==
    /\ rc_freed = 0
    /\ Rc_strong_count(rc_inner) = 0
    /\ rc_hist.weakClones >= 2
    /\ rc_hist.weakDrops >= 1
    /\ rc_weaks = 2

-----------------------------------------------------------------------------
(***************************************************************************)
(* my_rc.rs: properties of MyRc                                            *)
(***************************************************************************)

MyRcNext ==
    \/ MyRcClone /\ UNCHANGED <<rcVars, arcVars>>
    \/ MyRcDeref /\ UNCHANGED <<rcVars, arcVars>>
    \/ MyRcDrop /\ UNCHANGED <<rcVars, arcVars>>

\* The program of main.rs: only the MyRc block is in use.
InitMyRc == MyRcInit /\ RcUnused /\ ArcUnused

SpecMyRc == InitMyRc /\ [][MyRcNext]_vars

\* The step is a drop of a MyRc handle.
MyRcDropStep == my_hist'.drops = my_hist.drops + 1

\* C18: while the block is allocated ref_count is the number of live MyRc
\* handles and every handle dereferences to the value given to new (so did
\* every deref made so far); the block is freed at most once, exactly when
\* no handle is left, and the free happens in the drop that takes
\* ref_count from 1 to 0, never in a drop that finds ref_count above 1.
C18_MyRcCountsAndFreesOnce ==
    /\ [](/\ my_freed \in {0, 1}
          /\ my_freed = 1 <=> my_handles = 0
          /\ my_freed = 0 =>
                /\ my_inner.ref_count = my_handles
                /\ MyRc_deref(my_inner) = my_hist.constructed
          /\ my_hist.derefs >= 1 => my_hist.read = my_hist.constructed)
    /\ [][/\ my_freed' # my_freed =>
                /\ MyRcDropStep
                /\ my_inner.ref_count = 1
                /\ my_inner'.ref_count = 0
          /\ (MyRcDropStep /\ my_inner.ref_count > 1) =>
                my_freed' = my_freed]_vars

\* C18 witness: the run of main.rs to its end: new(5), two clones, the
\* three handles dereferenced, the three handles dropped, the block freed.
C18_Witness ==
    /\ my_hist.constructed = 5
    /\ my_hist.clones = 2
    /\ my_hist.derefs = 3
    /\ my_hist.read = 5
    /\ my_hist.drops = 3
    /\ my_handles = 0
    /\ my_freed = 1

=============================================================================
